---- MODULE Spec2Model ----
(***************************************************************************)
(* The three command-line scripts of the kannaka memory store              *)
(* (get-entity.py, query.py, reboot.py) over one SQLite database file.     *)
(* Each run is one process: it opens a connection, executes its            *)
(* statements, prints lines and exits.  Runs never overlap.                *)
(*                                                                         *)
(* Text that is only compared or printed is a TLA+ string; text that the   *)
(* code slices (attributes, detail) or scans (the SQL argument) is a       *)
(* sequence of one-character strings.  A printed line is the sequence of   *)
(* the pieces its f-string concatenates.  Timestamps are whole hours, so   *)
(* that the order of the stored text is the order of the numbers.          *)
(***************************************************************************)
EXTENDS Integers, Sequences, FiniteSets, TLC

VARIABLES
    db,             \* committed contents of the database file
    work,           \* contents as seen through the open connection
    clock,          \* current time, in hours
    pc,             \* position of the running script
    script,         \* which script the current process runs
    arg,            \* the script's argument (name or sql)
    conn,           \* "none", "open" or "closed"
    out,            \* lines printed to standard output by this run
    exit,           \* "none" while running, else the exit status "0" or "1"
    rows,           \* rows of the result set awaiting fetchall (query.py)
    two_hours_ago,  \* reboot.py's local variable of that name
    wm_at,          \* value datetime('now') had in the working-memory query
    error,          \* message of the exception query.py caught, "" if none
    db0,            \* committed contents when the current run started
    commits         \* number of conn.commit() calls of this run

vars == <<db, work, clock, pc, script, arg, conn, out, exit, rows,
          two_hours_ago, wm_at, error, db0, commits>>

-----------------------------------------------------------------------------
(* Bounds of the model *)

MaxRows == 12

MaxClock == 4

MaxRels == 4

(* Constants of the program *)

EventLimit == 10

EntityLimit == 10

LessonLimit == 5

DetailMax == 100

AttrMax == 50

TwoHours == 2

-----------------------------------------------------------------------------
(* Values *)

NULL == "<NULL>"

NullText == <<"<NULL>">>

Min(a, b) == IF a <= b THEN a ELSE b

Rep(c, n) == [i \in 1..n |-> c]

Digit == <<"0", "1", "2", "3", "4", "5", "6", "7", "8", "9">>

RECURSIVE Str(_)
Str(n) == IF n < 10 THEN Digit[n + 1] ELSE Str(n \div 10) \o Digit[(n % 10) + 1]

\* Python truthiness of an optional string: None and '' are false.
Truthy(s) == s # NULL /\ s # ""

\* Python truthiness of an optional sliced text.
TruthyText(t) == t # NullText /\ t # <<>>

\* s[:n]
Prefix(s, n) == SubSeq(s, 1, Min(n, Len(s)))

\* s[:n] + "..." if len(s) > n else s
Truncate(s, n) == IF Len(s) > n THEN Prefix(s, n) \o <<"...">> ELSE s

\* The strings the queries order by, in the order of SQLite's BINARY collation.
Collation ==
    <<"", "Alice", "Bob", "Carol", "Dave", "Eve", "Frank", "Ghost", "Grace",
      "Heidi", "Ivan", "Judy", "Mallory", "Nick", "Oscar", "Project X",
      "knows", "likes", "owns", "person", "project", "tool">>

Rank(s) == CHOOSE i \in 1..Len(Collation) : Collation[i] = s

\* All the orders in which ORDER BY may return the rows of S: ascending in
\* key, rows of equal key in any order.
RECURSIVE OrderBy(_, _)
OrderBy(S, key) ==
    IF S = {} THEN {<<>>}
    ELSE UNION { { <<m>> \o t : t \in OrderBy(S \ {m}, key) } :
                 m \in {a \in S : \A b \in S : key[a] <= key[b]} }

\* Mutation: the LIMIT clause is missing.
LimitNone(s, n) == s

\* LIMIT n
Limit(s, n) == SubSeq(s, 1, Min(n, Len(s)))

-----------------------------------------------------------------------------
(* The tables.  A table is a set of rows, each with its rowid. *)

EntityNames ==
    <<"Nick", "Alice", "Project X", "Mallory", "Bob", "Judy", "Carol",
      "Ivan", "Dave", "Heidi", "Eve", "Oscar", "Frank", "Grace">>

EntityType(i) ==
    IF i = 4 THEN "tool" ELSE IF i % 2 = 1 THEN "person" ELSE "project"

EntityAttributes(i) ==
    CASE i % 4 = 1 -> <<"{", "}">>
      [] i % 4 = 2 -> NullText
      [] i % 4 = 3 -> Rep("a", AttrMax + 1)
      [] OTHER     -> <<>>

EntityRow(i) ==
    [id |-> i, name |-> EntityNames[i], type |-> EntityType(i),
     attributes |-> EntityAttributes(i), created_at |-> i, updated_at |-> i + 1]

EventTimestamp(i) == IF i = 2 THEN 5 ELSE (i * 5) % 13

EventRow(i) ==
    [id |-> i, timestamp |-> EventTimestamp(i), category |-> "system",
     event_type |-> "note",
     subject |-> IF i % 3 = 0 THEN NULL ELSE IF i % 3 = 1 THEN "Nick" ELSE "",
     detail |-> IF i = 3 THEN Rep("d", DetailMax + 1) ELSE <<"o", "k">>]

LessonRow(i) ==
    [id |-> i, lesson |-> "lesson " \o Str(i), category |-> "ops",
     learned_from |-> IF i % 2 = 0 THEN NULL ELSE "Nick",
     created_at |-> IF i = 3 THEN 7 ELSE (i * 7) % 13]

RelationshipPool ==
    { [id |-> 1, from_entity |-> "Nick",  to_entity |-> "Project X",
       relation |-> "owns",  context |-> "since 2024"],
      [id |-> 2, from_entity |-> "Alice", to_entity |-> "Nick",
       relation |-> "knows", context |-> NULL],
      [id |-> 3, from_entity |-> "Nick",  to_entity |-> "Nick",
       relation |-> "likes", context |-> NULL],
      [id |-> 4, from_entity |-> "Nick",  to_entity |-> "Ghost",
       relation |-> "knows", context |-> "work"] }

\* An optional timestamp column.
Never == [null |-> TRUE, at |-> 0]

At(t) == [null |-> FALSE, at |-> t]

WorkingMemoryPool ==
    { [id |-> 1, key |-> "focus", value |-> "spec", category |-> "task", priority |-> 5,
       updated_at |-> 1, expires_at |-> Never],
      [id |-> 2, key |-> "mood", value |-> "calm", category |-> "state", priority |-> 5,
       updated_at |-> 1, expires_at |-> At(3)],
      [id |-> 3, key |-> "todo", value |-> "ship", category |-> "task", priority |-> 9,
       updated_at |-> 2, expires_at |-> At(9)],
      [id |-> 4, key |-> "old", value |-> "gone", category |-> "task", priority |-> 7,
       updated_at |-> 0, expires_at |-> At(0)] }

Store(n, rels, wm) ==
    [entities      |-> {EntityRow(i) : i \in 1..n},
     relationships |-> rels,
     working_memory |-> wm,
     events        |-> {EventRow(i) : i \in 1..n},
     lessons       |-> {LessonRow(i) : i \in 1..n}]

\* The stores a run may find: of any size with the two small tables full, or
\* small with any relationships, or small with any working memory.
InitialStores ==
    {Store(n, RelationshipPool, WorkingMemoryPool) : n \in 0..MaxRows}
    \cup {Store(2, rels, WorkingMemoryPool) : rels \in SUBSET RelationshipPool}
    \cup {Store(2, RelationshipPool, wm) : wm \in SUBSET WorkingMemoryPool}

-----------------------------------------------------------------------------
(* Process start and exit *)

Idle == pc \in {"idle", "exited"}

\* A fresh process: nothing printed, no connection, no local variables.
Fresh(s, a) ==
    /\ script' = s
    /\ arg' = a
    /\ rows' = <<>>
    /\ two_hours_ago' = 0
    /\ wm_at' = 0
    /\ error' = ""
    /\ db0' = db
    /\ commits' = 0

\* An exception nothing catches (cursor.execute raising sqlite3.Error: a
\* missing table, a locked database): the interpreter prints the traceback
\* to standard error and exits with status 1; conn.close() is never reached.
Uncaught ==
    /\ pc' = "exited"
    /\ exit' = "1"
    /\ conn' = conn

\* The clock starts late enough for two_hours_ago to be a time of the model.
Init ==
    /\ db \in InitialStores
    /\ work = db
    /\ db0 = db
    /\ clock = TwoHours
    /\ pc = "idle"
    /\ script = "none"
    /\ arg = NULL
    /\ conn = "none"
    /\ out = <<>>
    /\ exit = "none"
    /\ rows = <<>>
    /\ two_hours_ago = 0
    /\ wm_at = 0
    /\ error = ""
    /\ commits = 0

\* Time passes.
Tick ==
    /\ clock < MaxClock
    /\ clock' = clock + 1
    /\ UNCHANGED <<db, work, pc, script, arg, conn, out, exit, rows,
                   two_hours_ago, wm_at, error, db0, commits>>

-----------------------------------------------------------------------------
(* get-entity.py *)

\* The bullet character U+2022 and a space.
Bullet == "* "

LookupNames == {"Nick", "Alice", "Ghost", ""}

\* Mutation: the test is "context is not None".
ContextStrNotNone(context) ==
    IF context # NULL THEN <<" (", context, ")">> ELSE <<>>

ContextStr(context) == IF Truthy(context) THEN <<" (", context, ")">> ELSE <<>>

OutLine(name, rel) ==
    <<Bullet, name, " --", rel.relation, "--> ", rel.to_entity>>
        \o ContextStr(rel.context)

InLine(name, rel) ==
    <<Bullet, rel.from_entity, " --", rel.relation, "--> ", name>>
        \o ContextStr(rel.context)

\* Mutation: the ORDER BY clause is missing; rows come in rowid order.
ByRelationUnordered(S) == OrderBy(S, [r \in S |-> r.id])

ByRelation(S) == OrderBy(S, [r \in S |-> Rank(r.relation)])

OutRels(name) == {r \in work.relationships : r.from_entity = name}

InRels(name) == {r \in work.relationships : r.to_entity = name}

EntityLines(e) ==
    <<<<"Type: ", e.type>>,
      <<"Created: ", Str(e.created_at)>>,
      <<"Updated: ", Str(e.updated_at)>>>>
    \o (IF TruthyText(e.attributes)
        THEN <<<<"Attributes: ">> \o e.attributes>> ELSE <<>>)

GetEntityStart ==
    /\ Idle
    /\ \E name \in LookupNames \cup {NULL} :
        /\ Fresh("get_entity", name)
        /\ IF ~Truthy(name)
           THEN /\ out' = <<<<"Usage: python get-entity.py 'Nick'">>>>
                /\ exit' = "1"
                /\ pc' = "exited"
                /\ conn' = "none"
           ELSE /\ out' = <<<<"=== ENTITY: ", name, " ===">>>>
                /\ exit' = "none"
                /\ pc' = "ge_entity"
                /\ conn' = "open"
    /\ UNCHANGED <<db, work, clock>>

\* Mutation: the not-found branch does not return.
GetEntitySelectNoReturn ==
    /\ pc = "ge_entity"
    /\ LET found == {e \in work.entities : e.name = arg} IN
       \/ /\ Uncaught
          /\ UNCHANGED <<out, arg>>
       \/ /\ found = {}
          /\ out' = Append(out, <<"Entity not found">>)
          /\ pc' = "ge_out"
          /\ UNCHANGED <<conn, exit, arg>>
       \/ /\ found # {}
          /\ LET entity == CHOOSE e \in found : \A f \in found : e.id <= f.id IN
             /\ out' = out \o EntityLines(entity)
             /\ arg' = entity.name
          /\ pc' = "ge_out"
          /\ UNCHANGED <<conn, exit>>
    /\ UNCHANGED <<db, work, clock, script, rows, two_hours_ago, wm_at, error,
                   db0, commits>>

GetEntitySelect ==
    /\ pc = "ge_entity"
    /\ LET found == {e \in work.entities : e.name = arg} IN
       \/ /\ Uncaught
          /\ UNCHANGED <<out, arg>>
       \/ /\ found = {}
          /\ out' = Append(out, <<"Entity not found">>)
          /\ conn' = "closed"
          /\ exit' = "0"
          /\ pc' = "exited"
          /\ arg' = arg
       \/ /\ found # {}
          /\ LET entity == CHOOSE e \in found : \A f \in found : e.id <= f.id IN
             /\ out' = out \o EntityLines(entity)
             /\ arg' = entity.name
          /\ pc' = "ge_out"
          /\ UNCHANGED <<conn, exit>>
    /\ UNCHANGED <<db, work, clock, script, rows, two_hours_ago, wm_at, error,
                   db0, commits>>

GetEntityOutgoing ==
    /\ pc = "ge_out"
    /\ LET header == <<"\n--- Relationships FROM ", arg, " ---">> IN
       \/ /\ Uncaught
          /\ out' = Append(out, header)
       \/ /\ \E out_rels \in ByRelation(OutRels(arg)) :
               out' = Append(out, header)
                        \o [i \in 1..Len(out_rels) |-> OutLine(arg, out_rels[i])]
          /\ pc' = "ge_in"
          /\ UNCHANGED <<conn, exit>>
    /\ UNCHANGED <<db, work, clock, script, arg, rows, two_hours_ago, wm_at,
                   error, db0, commits>>

GetEntityIncoming ==
    /\ pc = "ge_in"
    /\ LET header == <<"\n--- Relationships TO ", arg, " ---">> IN
       \/ /\ Uncaught
          /\ out' = Append(out, header)
       \/ /\ \E in_rels \in ByRelation(InRels(arg)) :
               out' = Append(out, header)
                        \o [i \in 1..Len(in_rels) |-> InLine(arg, in_rels[i])]
          /\ conn' = "closed"
          /\ exit' = "0"
          /\ pc' = "exited"
    /\ UNCHANGED <<db, work, clock, script, arg, rows, two_hours_ago, wm_at,
                   error, db0, commits>>

-----------------------------------------------------------------------------
(* query.py *)

Whitespace == {" ", "\t", "\n", "\r"}

LowerAlpha ==
    <<"a", "b", "c", "d", "e", "f", "g", "h", "i", "j", "k", "l", "m",
      "n", "o", "p", "q", "r", "s", "t", "u", "v", "w", "x", "y", "z">>

UpperAlpha ==
    <<"A", "B", "C", "D", "E", "F", "G", "H", "I", "J", "K", "L", "M",
      "N", "O", "P", "Q", "R", "S", "T", "U", "V", "W", "X", "Y", "Z">>

UpperChar(c) ==
    IF \E i \in 1..Len(LowerAlpha) : LowerAlpha[i] = c
    THEN UpperAlpha[CHOOSE i \in 1..Len(LowerAlpha) : LowerAlpha[i] = c]
    ELSE c

\* str.upper()
Upper(s) == [i \in 1..Len(s) |-> UpperChar(s[i])]

RECURSIVE LStrip(_)
LStrip(s) == IF s # <<>> /\ Head(s) \in Whitespace THEN LStrip(Tail(s)) ELSE s

RECURSIVE RStrip(_)
RStrip(s) ==
    IF s # <<>> /\ s[Len(s)] \in Whitespace
    THEN RStrip(SubSeq(s, 1, Len(s) - 1)) ELSE s

\* str.strip()
Strip(s) == RStrip(LStrip(s))

\* str.startswith(p)
StartsWith(s, p) == Len(s) >= Len(p) /\ SubSeq(s, 1, Len(p)) = p

\* Mutation: the statement is not trimmed before the test.
IsSelectNoStrip(sql) == StartsWith(Upper(sql), <<"S", "E", "L", "E", "C", "T">>)

\* sql.strip().upper().startswith('SELECT')
IsSelect(sql) == StartsWith(Upper(Strip(sql)), <<"S", "E", "L", "E", "C", "T">>)

SqlSelectRel ==
    <<"S", "E", "L", "E", "C", "T", " ", "r", "e", "l", "a", "t", "i", "o",
      "n", ",", " ", "c", "o", "n", "t", "e", "x", "t", " ", "F", "R", "O",
      "M", " ", "r", "e", "l", "a", "t", "i", "o", "n", "s", "h", "i", "p",
      "s">>

SqlSelectWm ==
    <<" ", " ", "s", "e", "l", "e", "c", "t", " ", "k", "e", "y", ",", " ",
      "p", "r", "i", "o", "r", "i", "t", "y", " ", "f", "r", "o", "m", " ",
      "w", "o", "r", "k", "i", "n", "g", "_", "m", "e", "m", "o", "r", "y",
      "\n">>

SqlDeleteEvents ==
    <<"D", "E", "L", "E", "T", "E", " ", "F", "R", "O", "M", " ", "e", "v",
      "e", "n", "t", "s">>

SqlInsertRel ==
    <<"I", "N", "S", "E", "R", "T", " ", "I", "N", "T", "O", " ", "r", "e",
      "l", "a", "t", "i", "o", "n", "s", "h", "i", "p", "s", " ", "V", "A",
      "L", "U", "E", "S", " ", "(", "N", "U", "L", "L", ",", " ", "'", "G",
      "h", "o", "s", "t", "'", ",", " ", "'", "N", "i", "c", "k", "'", ",",
      " ", "'", "k", "n", "o", "w", "s", "'", ",", " ", "'", "'", ")">>

SqlValues ==
    <<"V", "A", "L", "U", "E", "S", " ", "(", "1", ")">>

SqlBad ==
    <<"S", "E", "L", "E", "C", " ", "1">>

SqlBadSelect ==
    <<"S", "E", "L", "E", "C", "T", " ", "F", "R", "O", "M">>

\* sys.argv holds no statement.
NoSql == NullText

Statements ==
    {SqlSelectRel, SqlSelectWm, SqlDeleteEvents, SqlInsertRel, SqlValues,
     SqlBad, SqlBadSelect, <<>>}

\* A value of a result row.
NullCell == [type |-> "null", text |-> "", int |-> 0]

TextCell(s) == [type |-> "text", text |-> s, int |-> 0]

IntCell(n) == [type |-> "int", text |-> "", int |-> n]

OptCell(s) == IF s = NULL THEN NullCell ELSE TextCell(s)

\* The rows of S in rowid order, the order of a table scan.
Scan(S) == CHOOSE s \in OrderBy(S, [r \in S |-> r.id]) : TRUE

NextRowid(S) ==
    IF S = {} THEN 1 ELSE 1 + (CHOOSE n \in {r.id : r \in S} : \A r \in S : r.id <= n)

\* What SQLite makes of the statement on the contents w: an error message
\* ("" if none), the result rows, and the contents after it.
Execute(sql, w) ==
    CASE sql = SqlSelectRel ->
           [error |-> "",
            rows |-> LET t == Scan(w.relationships) IN
                     [i \in 1..Len(t) |->
                        <<TextCell(t[i].relation), OptCell(t[i].context)>>],
            work |-> w]
      [] sql = SqlSelectWm ->
           [error |-> "",
            rows |-> LET t == Scan(w.working_memory) IN
                     [i \in 1..Len(t) |->
                        <<TextCell(t[i].key), IntCell(t[i].priority)>>],
            work |-> w]
      [] sql = SqlDeleteEvents ->
           [error |-> "", rows |-> <<>>, work |-> [w EXCEPT !.events = {}]]
      [] sql = SqlInsertRel ->
           [error |-> "", rows |-> <<>>,
            work |-> [w EXCEPT !.relationships = @ \cup
                        {[id |-> NextRowid(@), from_entity |-> "Ghost",
                          to_entity |-> "Nick", relation |-> "knows",
                          context |-> ""]}]]
      [] sql = SqlValues ->
           [error |-> "", rows |-> <<<<IntCell(1)>>>>, work |-> w]
      [] OTHER ->
           [error |-> "syntax error", rows |-> <<>>, work |-> w]

\* str(x) if x is not None else ''
Render(x) ==
    IF x.type = "null" THEN "" ELSE IF x.type = "int" THEN Str(x.int) ELSE x.text

\* '\t'.join(...)
TabJoin(parts) ==
    IF parts = <<>> THEN <<>>
    ELSE [i \in 1..(2 * Len(parts) - 1) |->
            IF i % 2 = 1 THEN parts[(i + 1) \div 2] ELSE "\t"]

RowLine(row) == TabJoin([i \in 1..Len(row) |-> Render(row[i])])

QueryStart ==
    /\ Idle
    /\ \E sql \in Statements \cup {NoSql} :
        /\ sql = SqlInsertRel => Cardinality(db.relationships) < MaxRels
        /\ Fresh("query", sql)
        /\ IF sql = NoSql \/ sql = <<>>
           THEN /\ out' = <<<<"Usage: python query.py 'SELECT * FROM working_memory;'">>>>
                /\ exit' = "1"
                /\ pc' = "exited"
                /\ conn' = "none"
           ELSE /\ out' = <<>>
                /\ exit' = "none"
                /\ pc' = "q_execute"
                /\ conn' = "open"
    /\ UNCHANGED <<db, work, clock>>

\* Mutation: the connection is in autocommit mode.
QueryExecuteAutocommit ==
    /\ pc = "q_execute"
    /\ LET r == Execute(arg, work) IN
       \/ /\ error' = IF r.error # "" THEN r.error ELSE "database is locked"
          /\ pc' = "q_except"
          /\ UNCHANGED <<db, work, rows>>
       \/ /\ r.error = ""
          /\ work' = r.work
          /\ db' = r.work
          /\ rows' = r.rows
          /\ error' = ""
          /\ pc' = IF IsSelect(arg) THEN "q_fetch" ELSE "q_commit"
    /\ UNCHANGED <<clock, script, arg, conn, out, exit, two_hours_ago,
                   wm_at, db0, commits>>

\* cursor.execute(sql) and the test that follows it.
QueryExecute ==
    /\ pc = "q_execute"
    /\ LET r == Execute(arg, work) IN
       \/ /\ error' = IF r.error # "" THEN r.error ELSE "database is locked"
          /\ pc' = "q_except"
          /\ UNCHANGED <<work, rows>>
       \/ /\ r.error = ""
          /\ work' = r.work
          /\ rows' = r.rows
          /\ error' = ""
          /\ pc' = IF IsSelect(arg) THEN "q_fetch" ELSE "q_commit"
    /\ UNCHANGED <<db, clock, script, arg, conn, out, exit, two_hours_ago,
                   wm_at, db0, commits>>

\* results = cursor.fetchall() and the loop that prints them.
QueryFetch ==
    /\ pc = "q_fetch"
    /\ \/ /\ error' = "database disk image is malformed"
          /\ pc' = "q_except"
          /\ out' = out
       \/ /\ out' = out \o [i \in 1..Len(rows) |-> RowLine(rows[i])]
          /\ pc' = "q_finally"
          /\ error' = ""
    /\ UNCHANGED <<db, work, clock, script, arg, conn, exit, rows,
                   two_hours_ago, wm_at, db0, commits>>

\* Mutation: the acknowledgment is printed before the commit.
QueryCommitAckFirst ==
    /\ pc = "q_commit"
    /\ commits' = commits + 1
    /\ \/ /\ error' = "database is locked"
          /\ pc' = "q_except"
          /\ out' = Append(out, <<"Query executed successfully">>)
          /\ db' = db
       \/ /\ db' = work
          /\ out' = Append(out, <<"Query executed successfully">>)
          /\ pc' = "q_finally"
          /\ error' = ""
    /\ UNCHANGED <<work, clock, script, arg, conn, exit, rows, two_hours_ago,
                   wm_at, db0>>

\* Mutation: a commit that raises has already written.
QueryCommitPartial ==
    /\ pc = "q_commit"
    /\ commits' = commits + 1
    /\ \/ /\ error' = "database is locked"
          /\ pc' = "q_except"
          /\ db' = work
          /\ out' = out
       \/ /\ db' = work
          /\ out' = Append(out, <<"Query executed successfully">>)
          /\ pc' = "q_finally"
          /\ error' = ""
    /\ UNCHANGED <<work, clock, script, arg, conn, exit, rows, two_hours_ago,
                   wm_at, db0>>

\* conn.commit() and the acknowledgment.
QueryCommit ==
    /\ pc = "q_commit"
    /\ commits' = commits + 1
    /\ \/ /\ error' = "database is locked"
          /\ pc' = "q_except"
          /\ UNCHANGED <<db, out>>
       \/ /\ db' = work
          /\ out' = Append(out, <<"Query executed successfully">>)
          /\ pc' = "q_finally"
          /\ error' = ""
    /\ UNCHANGED <<work, clock, script, arg, conn, exit, rows, two_hours_ago,
                   wm_at, db0>>

\* except Exception as e: print and sys.exit(1), which the finally precedes.
QueryExcept ==
    /\ pc = "q_except"
    /\ out' = Append(out, <<"Error: ", error>>)
    /\ pc' = "q_finally"
    /\ UNCHANGED <<db, work, clock, script, arg, conn, exit, rows,
                   two_hours_ago, wm_at, error, db0, commits>>

\* finally: conn.close(), which rolls back what was not committed; then the
\* process ends, with status 1 if sys.exit(1) is under way.
QueryFinally ==
    /\ pc = "q_finally"
    /\ conn' = "closed"
    /\ work' = db
    /\ exit' = IF error = "" THEN "0" ELSE "1"
    /\ pc' = "exited"
    /\ UNCHANGED <<db, clock, script, arg, out, rows, two_hours_ago, wm_at,
                   error, db0, commits>>

-----------------------------------------------------------------------------
(* reboot.py *)

\* Mutation: the comparison is >=.
ActiveInclusive(w, now) == w.expires_at.null \/ w.expires_at.at >= now

\* WHERE expires_at IS NULL OR expires_at > datetime('now')
Active(w, now) == w.expires_at.null \/ w.expires_at.at > now

\* ORDER BY priority DESC, updated_at DESC
ByPriority(S) ==
    LET latest == CHOOSE m \in {w.updated_at : w \in S} :
                      \A w \in S : w.updated_at <= m
        span == latest + 1
    IN OrderBy(S, [w \in S |-> 0 - (w.priority * span + w.updated_at)])

WorkingMemoryResults(now) ==
    ByPriority({w \in work.working_memory : Active(w, now)})

WorkingMemoryLine(w) ==
    <<Bullet, w.key, ": ", w.value, " [", w.category, ", p", Str(w.priority), "]">>

\* WHERE timestamp > ? ORDER BY timestamp DESC LIMIT 10
EventResults(since) ==
    LET S == {e \in work.events : e.timestamp > since}
    IN {Limit(s, EventLimit) : s \in OrderBy(S, [e \in S |-> 0 - e.timestamp])}

\* time_str, the HH:MM slice of the stored text, is the hour here.
EventLine(e) ==
    LET subject_str == IF Truthy(e.subject) THEN <<" [", e.subject, "]">> ELSE <<>>
        detail_short == Truncate(e.detail, DetailMax)
        time_str == Str(e.timestamp)
    IN <<Bullet, time_str, " ", e.category, ".", e.event_type>>
         \o subject_str \o <<": ">> \o detail_short

\* WHERE type IN ('person', 'project') ORDER BY type, name LIMIT 10
EntityResults ==
    LET S == {e \in work.entities : e.type \in {"person", "project"}}
    IN {Limit(s, EntityLimit) :
          s \in OrderBy(S, [e \in S |->
                  Rank(e.type) * (Len(Collation) + 1) + Rank(e.name)])}

EntityLine(e) ==
    LET attrs == IF TruthyText(e.attributes)
                 THEN Truncate(e.attributes, AttrMax) ELSE <<>>
    IN <<Bullet, e.name, " (", e.type, "): ">> \o attrs

\* ORDER BY created_at DESC LIMIT 5
LessonResults ==
    LET S == work.lessons
    IN {Limit(s, LessonLimit) : s \in OrderBy(S, [l \in S |-> 0 - l.created_at])}

LessonLine(l) ==
    LET from_str == IF Truthy(l.learned_from)
                    THEN <<" (from: ", l.learned_from, ")">> ELSE <<>>
    IN <<Bullet, "[", l.category, "] ", l.lesson>> \o from_str

RebootStart ==
    /\ Idle
    /\ Fresh("reboot", NULL)
    /\ out' = <<<<"=== KANNAKA MEMORY REBOOT ===">>, <<"Timestamp: ", Str(clock)>>>>
    /\ exit' = "none"
    /\ pc' = "rb_wm"
    /\ conn' = "open"
    /\ UNCHANGED <<db, work, clock>>

RebootWorkingMemory ==
    /\ pc = "rb_wm"
    /\ LET header == <<"\n## WORKING MEMORY:">> IN
       \/ /\ Uncaught
          /\ out' = Append(out, header)
          /\ wm_at' = wm_at
       \/ /\ \E wm_results \in WorkingMemoryResults(clock) :
               out' = Append(out, header)
                        \o [i \in 1..Len(wm_results) |->
                              WorkingMemoryLine(wm_results[i])]
          /\ wm_at' = clock
          /\ pc' = "rb_events"
          /\ UNCHANGED <<conn, exit>>
    /\ UNCHANGED <<db, work, clock, script, arg, rows, two_hours_ago, error,
                   db0, commits>>

\* The header shows a slice of two_hours_ago's text: here, the hour.
RebootEvents ==
    /\ pc = "rb_events"
    /\ two_hours_ago' = clock - TwoHours
    /\ LET header == <<"\n## RECENT EVENTS (since ", Str(clock - TwoHours), "):">> IN
       \/ /\ Uncaught
          /\ out' = Append(out, header)
       \/ /\ \E event_results \in EventResults(clock - TwoHours) :
               out' = Append(out, header)
                        \o [i \in 1..Len(event_results) |->
                              EventLine(event_results[i])]
          /\ pc' = "rb_entities"
          /\ UNCHANGED <<conn, exit>>
    /\ UNCHANGED <<db, work, clock, script, arg, rows, wm_at, error, db0,
                   commits>>

RebootEntities ==
    /\ pc = "rb_entities"
    /\ LET header == <<"\n## KEY ENTITIES:">> IN
       \/ /\ Uncaught
          /\ out' = Append(out, header)
       \/ /\ \E entity_results \in EntityResults :
               out' = Append(out, header)
                        \o [i \in 1..Len(entity_results) |->
                              EntityLine(entity_results[i])]
          /\ pc' = "rb_lessons"
          /\ UNCHANGED <<conn, exit>>
    /\ UNCHANGED <<db, work, clock, script, arg, rows, two_hours_ago, wm_at,
                   error, db0, commits>>

RebootLessons ==
    /\ pc = "rb_lessons"
    /\ LET header == <<"\n## RECENT LESSONS:">> IN
       \/ /\ Uncaught
          /\ out' = Append(out, header)
       \/ /\ \E lesson_results \in LessonResults :
               out' = Append(Append(out, header)
                               \o [i \in 1..Len(lesson_results) |->
                                     LessonLine(lesson_results[i])],
                             <<"\n=== END REBOOT SUMMARY ===">>)
          /\ conn' = "closed"
          /\ exit' = "0"
          /\ pc' = "exited"
    /\ UNCHANGED <<db, work, clock, script, arg, rows, two_hours_ago, wm_at,
                   error, db0, commits>>

Next ==
    \/ Tick
    \/ GetEntityStart
    \/ GetEntitySelect
    \/ GetEntityOutgoing
    \/ GetEntityIncoming
    \/ QueryStart
    \/ QueryExecute
    \/ QueryFetch
    \/ QueryCommit
    \/ QueryExcept
    \/ QueryFinally
    \/ RebootStart
    \/ RebootWorkingMemory
    \/ RebootEvents
    \/ RebootEntities
    \/ RebootLessons

Spec == Init /\ [][Next]_vars

-----------------------------------------------------------------------------
(* Properties *)

Ack == <<"Query executed successfully">>

IsBulletLine(l) == Len(l) >= 1 /\ l[1] = Bullet

Has(l) == \E i \in 1..Len(out) : out[i] = l

IndexOf(l) == CHOOSE i \in 1..Len(out) : out[i] = l

Lines(a, b) == {out[i] : i \in a..b}

\* C1: on every run that opens a connection, the connection is closed
\* before the process exits, on every exit path.
ConnectionClosedOnEveryExit ==
    (pc = "exited" /\ conn # "none") => conn = "closed"

\* C2: a Query Runner statement that runs without error prints one
\* tab-joined line per result row (nulls as empty strings), without commit
\* or acknowledgment, if it begins with SELECT after trimming and ignoring
\* case; otherwise it is committed and acknowledged exactly once.  Both
\* paths exit 0.
QueryTakesOneOfTwoPaths ==
    (pc = "exited" /\ script = "query" /\ conn = "closed" /\ error = "") =>
        /\ exit = "0"
        /\ arg \in {SqlSelectRel, SqlSelectWm, SqlDeleteEvents, SqlInsertRel,
                    SqlValues}
        /\ arg = SqlSelectRel =>
             /\ commits = 0 /\ db = db0
             /\ Len(out) = Cardinality(db.relationships)
             /\ Lines(1, Len(out)) =
                  {<<r.relation, "\t", IF r.context = NULL THEN "" ELSE r.context>> :
                     r \in db.relationships}
        /\ arg = SqlSelectWm =>
             /\ commits = 0 /\ db = db0
             /\ Len(out) = Cardinality(db.working_memory)
             /\ Lines(1, Len(out)) =
                  {<<w.key, "\t", Str(w.priority)>> : w \in db.working_memory}
        /\ arg \in {SqlDeleteEvents, SqlInsertRel, SqlValues} =>
             /\ commits = 1
             /\ out = <<Ack>>

QueryPathsWitness ==
    /\ pc = "exited" /\ script = "query" /\ error = ""
    /\ arg = SqlSelectRel
    /\ \E r \in db.relationships : r.context = NULL
    /\ Len(out) >= 2

\* C3: any error raised while executing, fetching or committing is caught:
\* an error line is printed, the process exits with status 1 and the
\* acknowledgment is not printed on that run.
QueryErrorIsReported ==
    /\ (script = "query" /\ pc \in {"q_finally", "exited"} /\ error # "") =>
          /\ out # <<>>
          /\ out[Len(out)] = <<"Error: ", error>>
          /\ ~Has(Ack)
          /\ pc = "exited" => (exit = "1" /\ conn = "closed")
    /\ (script = "query" /\ pc = "exited" /\ conn = "closed" /\ exit = "1") =>
          error # ""
    /\ (script = "query" /\ pc = "q_except") => error # ""

QueryErrorWitness ==
    /\ pc = "exited" /\ script = "query" /\ exit = "1"
    /\ commits = 1 /\ error # ""

\* C4, as stated: no run of any of the three scripts changes the five
\* tables.
TablesNeverChange == [][db' = db]_vars

\* C4, amended: Entity Lookup and the Reboot Summarizer never change the
\* tables; the Query Runner changes them only by a statement that does not
\* begin with SELECT and that executes and commits without error.
TablesChangeOnlyByCommittedMutation ==
    /\ script \in {"none", "get_entity", "reboot"} => (db = db0 /\ work = db)
    /\ (script = "query" /\ db # db0) =>
          /\ arg \in {SqlDeleteEvents, SqlInsertRel}
          /\ commits = 1
          /\ error = ""
          /\ pc \in {"q_finally", "exited"}
          /\ pc = "exited" => exit = "0"

TablesChangedWitness ==
    /\ pc = "exited" /\ script = "query" /\ exit = "0"
    /\ db.events # db0.events

\* C5: Entity Lookup of a non-empty name that matches no entity prints the
\* not-found message and no relationship section or line, even when
\* relationships mention the name, and exits with status 0.
NotFoundPrintsNoRelationships ==
    (/\ pc = "exited" /\ script = "get_entity" /\ conn = "closed"
     /\ ~\E e \in db.entities : e.name = arg) =>
        /\ out = <<<<"=== ENTITY: ", arg, " ===">>, <<"Entity not found">>>>
        /\ exit = "0"

NotFoundWitness ==
    /\ pc = "exited" /\ script = "get_entity" /\ exit = "0"
    /\ arg = "Ghost"
    /\ \E r \in db.relationships : r.to_entity = "Ghost"
    /\ \E r \in db.relationships : r.from_entity = "Ghost"

LookupDone ==
    /\ pc = "exited" /\ script = "get_entity" /\ exit = "0"
    /\ \E e \in db.entities : e.name = arg

FromHeader == <<"\n--- Relationships FROM ", arg, " ---">>

ToHeader == <<"\n--- Relationships TO ", arg, " ---">>

\* C6: Entity Lookup of an existing entity with N relationships from it and
\* M to it prints exactly N+M relationship lines, the N outgoing ones
\* first, then the M incoming ones, each group in non-decreasing order of
\* relation label.
RelationshipLinesGroupedAndOrdered ==
    LookupDone =>
        /\ Has(FromHeader) /\ Has(ToHeader)
        /\ LET f == IndexOf(FromHeader)
               t == IndexOf(ToHeader)
               N == Cardinality({r \in db.relationships : r.from_entity = arg})
               M == Cardinality({r \in db.relationships : r.to_entity = arg})
           IN /\ Len(SelectSeq(out, IsBulletLine)) = N + M
              /\ t = f + N + 1
              /\ Len(out) = t + M
              /\ \A i \in (f + 1)..(t - 1) : IsBulletLine(out[i]) /\ out[i][2] = arg
              /\ \A i \in (t + 1)..Len(out) : IsBulletLine(out[i]) /\ out[i][6] = arg
              /\ \A i, j \in (f + 1)..(t - 1) :
                    i < j => Rank(out[i][4]) <= Rank(out[j][4])
              /\ \A i, j \in (t + 1)..Len(out) :
                    i < j => Rank(out[i][4]) <= Rank(out[j][4])

RelationshipLinesWitness ==
    /\ LookupDone
    /\ arg = "Nick"
    /\ Cardinality({r \in db.relationships : r.from_entity = arg}) = 3
    /\ Cardinality({r \in db.relationships : r.to_entity = arg}) = 2
    /\ \E r \in db.relationships : r.from_entity = arg /\ r.to_entity = arg

\* The line of a relationship, with the parenthetical when withContext.
ExpectedLine(r, withContext) ==
    <<Bullet, r.from_entity, " --", r.relation, "--> ", r.to_entity>>
        \o (IF withContext THEN <<" (", r.context, ")">> ELSE <<>>)

\* C7, as stated: a relationship line ends with the parenthetical if and
\* only if the relationship's context is not null, the empty string
\* included.
ParentheticalIffContextNotNull ==
    LookupDone =>
        Lines(IndexOf(FromHeader) + 1, Len(out)) \ {ToHeader} =
            {ExpectedLine(r, r.context # NULL) :
               r \in {q \in db.relationships :
                        q.from_entity = arg \/ q.to_entity = arg}}

\* C7, amended: a relationship line ends with the parenthetical if and only
\* if the relationship's context is neither null nor the empty string.
ParentheticalIffContextNotEmpty ==
    LookupDone =>
        Lines(IndexOf(FromHeader) + 1, Len(out)) \ {ToHeader} =
            {ExpectedLine(r, r.context # NULL /\ r.context # "") :
               r \in {q \in db.relationships :
                        q.from_entity = arg \/ q.to_entity = arg}}

ParentheticalWitness ==
    /\ LookupDone
    /\ arg = "Nick"
    /\ \E r \in db.relationships : r.to_entity = arg /\ r.context = ""
    /\ \E r \in db.relationships : r.to_entity = arg /\ r.context = NULL
    /\ \E r \in db.relationships : r.from_entity = arg /\ r.context = "work"

RebootDone == pc = "exited" /\ script = "reboot" /\ exit = "0"

EventsHeader == <<"\n## RECENT EVENTS (since ", Str(two_hours_ago), "):">>

EntitiesHeader == <<"\n## KEY ENTITIES:">>

LessonsHeader == <<"\n## RECENT LESSONS:">>

\* The positions of the lines of the three capped sections of the digest.
EventPositions == (IndexOf(EventsHeader) + 1)..(IndexOf(EntitiesHeader) - 1)

EntityPositions == (IndexOf(EntitiesHeader) + 1)..(IndexOf(LessonsHeader) - 1)

LessonPositions == (IndexOf(LessonsHeader) + 1)..(Len(out) - 1)

QualifyingEvents == {e \in db.events : e.timestamp > two_hours_ago}

KeyEntities == {e \in db.entities : e.type = "person" \/ e.type = "project"}

TypeNameBefore(a, b) ==
    \/ Rank(a.type) < Rank(b.type)
    \/ a.type = b.type /\ Rank(a.name) < Rank(b.name)

EventCapHolds ==
    LET P == EventPositions
        Q == QualifyingEvents
        shown(t) == Cardinality({i \in P : out[i][2] = Str(t)})
        stored(t) == Cardinality({e \in Q : e.timestamp = t})
        at(i) == CHOOSE t \in {e.timestamp : e \in Q} : Str(t) = out[i][2]
    IN /\ Cardinality(P) <= 10
       /\ Cardinality(P) = Min(10, Cardinality(Q))
       /\ \A i \in P : \E e \in Q : Str(e.timestamp) = out[i][2]
       /\ \A i, j \in P : i < j => at(i) >= at(j)
       /\ \A e \in Q :
            /\ shown(e.timestamp) <= stored(e.timestamp)
            /\ (\E i \in P : at(i) < e.timestamp) =>
                 shown(e.timestamp) = stored(e.timestamp)

EntityCapHolds ==
    LET P == EntityPositions
        Q == KeyEntities
        row(i) == CHOOSE e \in Q : e.name = out[i][2]
        shown == {e \in Q : \E i \in P : out[i][2] = e.name}
    IN /\ Cardinality(P) <= 10
       /\ Cardinality(P) = Min(10, Cardinality(Q))
       /\ \A i \in P : \E e \in Q : e.name = out[i][2] /\ e.type = out[i][4]
       /\ \A i, j \in P : i < j => TypeNameBefore(row(i), row(j))
       /\ \A e \in shown : \A u \in Q \ shown : TypeNameBefore(e, u)

LessonCapHolds ==
    LET P == LessonPositions
        Q == db.lessons
        row(i) == CHOOSE l \in Q : l.lesson = out[i][5]
        shown == {l \in Q : \E i \in P : out[i][5] = l.lesson}
    IN /\ Cardinality(P) <= 5
       /\ Cardinality(P) = Min(5, Cardinality(Q))
       /\ Cardinality(shown) = Cardinality(P)
       /\ \A i \in P : \E l \in Q : l.lesson = out[i][5]
       /\ \A i, j \in P : i < j => row(i).created_at >= row(j).created_at
       /\ \A l \in shown : \A u \in Q \ shown : l.created_at >= u.created_at

\* C8: the digest holds at most 10 event lines, 10 entity lines and 5
\* lesson lines; when more rows qualify they are the 10 newest qualifying
\* events, newest first, the first 10 person/project entities in (type,
\* name) order, and the 5 most recently created lessons.
DigestSectionsAreCapped ==
    RebootDone =>
        /\ Has(EventsHeader) /\ Has(EntitiesHeader) /\ Has(LessonsHeader)
        /\ EventCapHolds
        /\ EntityCapHolds
        /\ LessonCapHolds

DigestCapWitness ==
    /\ RebootDone
    /\ Cardinality(QualifyingEvents) > 10
    /\ Cardinality(KeyEntities) > 10
    /\ Cardinality(db.lessons) > 5
    /\ Cardinality(EventPositions) = 10
    /\ Cardinality(LessonPositions) = 5

\* C9: the working-memory section has a line for an entry if and only if
\* its expires_at is null or strictly later than the time of the run;
\* expired entries are left out and the active ones are not capped.
WorkingMemoryShowsActiveEntries ==
    (script = "reboot" /\ pc = "rb_events") =>
        LET P == 4..Len(out)
            active == {w \in db.working_memory :
                         w.expires_at.null \/ w.expires_at.at > wm_at}
        IN /\ out[3] = <<"\n## WORKING MEMORY:">>
           /\ {out[i][2] : i \in P} = {w.key : w \in active}
           /\ Cardinality(P) = Cardinality(active)
           /\ \A w \in db.working_memory :
                (~w.expires_at.null /\ w.expires_at.at <= wm_at) =>
                    \A i \in P : out[i][2] # w.key

WorkingMemoryWitness ==
    /\ script = "reboot" /\ pc = "rb_events"
    /\ db.working_memory = WorkingMemoryPool
    /\ wm_at = 3
    /\ Len(out) = 5

\* C10, as stated: a Query Runner run that exits with status 1 never
\* issues a commit and leaves the committed contents as they were; a commit
\* is issued only on a run that exits 0 with a non-SELECT statement.
ErrorRunIssuesNoCommit ==
    (script = "query" /\ pc = "exited") =>
        /\ exit = "1" => (commits = 0 /\ db = db0)
        /\ commits > 0 =>
             (exit = "0" /\ arg \notin {SqlSelectRel, SqlSelectWm, SqlBadSelect})

\* C10, amended: a Query Runner run that exits with status 1 never
\* completes a commit (conn.commit() may have been called and have raised)
\* and leaves the committed contents as they were; a commit is issued only
\* for a non-SELECT statement and completes only on a run that exits 0.
ErrorRunCompletesNoCommit ==
    (script = "query" /\ pc = "exited") =>
        /\ exit = "1" => (db = db0 /\ (commits > 0 => arg \in {SqlDeleteEvents, SqlInsertRel, SqlValues}))
        /\ commits > 0 =>
             (commits = 1 /\ arg \notin {SqlSelectRel, SqlSelectWm, SqlBadSelect})
        /\ db # db0 => (exit = "0" /\ commits = 1)

ErrorRunWitness ==
    /\ script = "query" /\ pc = "exited" /\ exit = "1"
    /\ commits = 1
    /\ arg = SqlDeleteEvents
    /\ db.events # {}

====
